---- MODULE Spec2Model ----
(***************************************************************************)
(* The road-network sketch cleaner of src/SIM/exec.py: the                 *)
(* RoadNetworkCleaner object (height, width, min_road_length), its methods *)
(* find_network_points, remove_spurious_roads, get_path and process_sketch.*)
(* Beside it, process_sketch of src/SIM/road_network_cleaner.py and        *)
(* validate_network_connectivity of src/SIM/ds.py.                         *)
(*                                                                         *)
(* A raster is a record [h, w, fg]: h rows, w columns, fg the set of the   *)
(* <<x, y>> cells (x the column, y the row, 0-indexed) that are True.      *)
(* numpy indexes a raster [row, column], i.e. [y, x].                      *)
(***************************************************************************)
EXTENDS Integers, Sequences, FiniteSets, TLC

\* ------------------------------------------------------------------ bounds
\* The calls take every raster of at most MaxH rows and MaxW columns with at
\* most MaxFg foreground pixels, and the rasters named below.
MaxH == 2
MaxW == 2
MaxFg == 4
\* The graphs validate_network_connectivity is given have at most MaxNodes
\* nodes.
MaxNodes == 3

\* ------------------------------------------------------- program constants
\* self.min_road_length = 20
DefaultMinRoadLength == 20
\* self.height and self.width do not exist until process_sketch sets them
NoDim == -1
\* cv2.threshold(sketch_img, 127, 255, cv2.THRESH_BINARY)
Threshold == 127
\* self.intersection_radius = 5
DefaultIntersectionRadius == 5
\* margin = 0.0001 in get_border_nodes; coordinates are counted in margins
Margin == 1

\* ----------------------------------------------------------------- rasters
Cells(h, w) == (0..(w - 1)) \X (0..(h - 1))

RastersOf(h, w) == {[h |-> h, w |-> w, fg |-> s] : s \in SUBSET Cells(h, w)}

SmallRasters ==
    {r \in UNION {RastersOf(h, w) : h \in 1..MaxH, w \in 1..MaxW} :
        Cardinality(r.fg) <= MaxFg}

\* The 10x10 raster of the spec's scenario: the line (1,5)..(8,5) and the
\* stub (4,5)..(4,2).
TRaster ==
    [h |-> 10, w |-> 10, fg |-> {<<x, 5>> : x \in 1..8} \cup {<<4, y>> : y \in 2..5}]

\* A 10x10 raster holding the single pixel (5,5).
DotRaster == [h |-> 10, w |-> 10, fg |-> {<<5, 5>>}]

\* A 10x10 raster of two disjoint straight segments.
SegmentsRaster ==
    [h |-> 10, w |-> 10, fg |-> {<<x, 2>> : x \in 1..4} \cup {<<x, 7>> : x \in 5..8}]

\* A 2x3 raster: the line (0,0)..(2,0) and the cell (2,1) below its end.
EllRaster == [h |-> 2, w |-> 3, fg |-> {<<0, 0>>, <<1, 0>>, <<2, 0>>, <<2, 1>>}]

\* A 3x4 raster: the line (0,1)..(2,1) forking at (2,1) into (3,0) and (3,2).
ForkRaster ==
    [h |-> 3, w |-> 4, fg |-> {<<0, 1>>, <<1, 1>>, <<2, 1>>, <<3, 0>>, <<3, 2>>}]

\* A 3x3 raster whose endpoint (2,2) is as far from the intersection (1,0) as
\* from the intersection (0,1).
TieRaster ==
    [h |-> 3, w |-> 3,
     fg |-> {<<0, 0>>, <<1, 0>>, <<2, 0>>, <<0, 1>>, <<1, 2>>, <<2, 2>>}]

ScenarioRasters == {TRaster, DotRaster, SegmentsRaster, EllRaster, ForkRaster, TieRaster}

Skeletons == SmallRasters \cup ScenarioRasters

Range(s) == {s[i] : i \in 1..Len(s)}

\* ---------------------------------------------------- find_network_points
\* (mutant) no padding: an index before the first row or column wraps to the
\* last, as a negative numpy index does, and so does one after the last.
PaddedAtWrapped(skeleton, y, x) ==
    <<(x - 1) % skeleton.w, (y - 1) % skeleton.h>> \in skeleton.fg

\* padded = np.pad(skeleton, pad_width=1, constant_values=0): padded[y, x]
\* is skeleton[y - 1, x - 1] inside the raster and 0 on the border.
PaddedAt(skeleton, y, x) == <<x - 1, y - 1>> \in skeleton.fg

\* padded has skeleton.h + 2 rows and skeleton.w + 2 columns; an index
\* beyond them raises IndexError.
InPadded(skeleton, y, x) ==
    /\ y \in 0..(skeleton.h + 1)
    /\ x \in 0..(skeleton.w + 1)

\* neighbors = padded[y-1:y+2, x-1:x+2].sum() - 1
Neighbors(skeleton, y, x) ==
    Cardinality({c \in ((x - 1)..(x + 1)) \X ((y - 1)..(y + 1)) :
                    PaddedAt(skeleton, c[2], c[1])}) - 1

\* for y in range(1, self.height + 1): for x in range(1, self.width + 1):
\* the <<x, y>> visited, in the order visited.
ScanSeq(selfHeight, selfWidth) ==
    [i \in 1..(selfHeight * selfWidth) |->
        <<((i - 1) % selfWidth) + 1, ((i - 1) \div selfWidth) + 1>>]

IsEndpointAt(skeleton, p) ==
    PaddedAt(skeleton, p[2], p[1]) /\ Neighbors(skeleton, p[2], p[1]) = 1

\* (mutant) "if neighbors > 0" in place of "elif neighbors > 2"
IsIntersectionAtAny(skeleton, p) ==
    PaddedAt(skeleton, p[2], p[1]) /\ Neighbors(skeleton, p[2], p[1]) > 0

IsIntersectionAt(skeleton, p) ==
    /\ PaddedAt(skeleton, p[2], p[1])
    /\ Neighbors(skeleton, p[2], p[1]) # 1
    /\ Neighbors(skeleton, p[2], p[1]) > 2

\* (mutant) endpoints.append((x, y)): the padded coordinates
UnpadNot(s) == s

\* endpoints.append((x - 1, y - 1))
Unpad(s) == [i \in 1..Len(s) |-> <<s[i][1] - 1, s[i][2] - 1>>]

find_network_points(selfHeight, selfWidth, skeleton) ==
    IF selfHeight = NoDim \/ selfWidth = NoDim
    THEN [raised |-> "AttributeError", endpoints |-> <<>>, intersections |-> <<>>]
    ELSE IF \E y \in 1..selfHeight, x \in 1..selfWidth : ~InPadded(skeleton, y, x)
    THEN [raised |-> "IndexError", endpoints |-> <<>>, intersections |-> <<>>]
    ELSE LET scan == ScanSeq(selfHeight, selfWidth)
         IN  [raised |-> "none",
              endpoints |->
                  Unpad(SelectSeq(scan, LAMBDA p : IsEndpointAt(skeleton, p))),
              intersections |->
                  Unpad(SelectSeq(scan, LAMBDA p : IsIntersectionAt(skeleton, p)))]

\* ---------------------------------------------------------------- get_path
\* A cumulative cost is kept exactly, as <<a, b>> for (a + b * sqrt(2)) / 2;
\* <<-1, 0>> is a cell not reached yet (numpy's inf).
Unreached == <<-1, 0>>

IsUnreached(p) == p[1] < 0

CostAdd(p, q) == <<p[1] + q[1], p[2] + q[2]>>

\* da < db * sqrt(2), for integers da and db
LessThanRoot2Times(da, db) ==
    IF db >= 0
    THEN da < 0 \/ da * da < 2 * db * db
    ELSE da < 0 /\ da * da > 2 * db * db

CostLess(p, q) ==
    IF IsUnreached(p) THEN FALSE
    ELSE IF IsUnreached(q) THEN TRUE
    ELSE p # q /\ LessThanRoot2Times(p[1] - q[1], q[2] - p[2])

MinCost(S) == CHOOSE p \in S : \A q \in S : ~CostLess(q, p)

\* (mutant) every cell costs the same
CostAtUniform(skeleton, c) == 1

\* cost_array = ~skeleton: a skeleton cell costs 0, any other cell 1
CostAt(skeleton, c) == IF c \in skeleton.fg THEN 0 ELSE 1

\* fully_connected=True: the 8 cells around c that lie in the array
Adjacent(skeleton, c) ==
    {d \in ((c[1] - 1)..(c[1] + 1)) \X ((c[2] - 1)..(c[2] + 1)) :
        /\ d # c
        /\ d[1] \in 0..(skeleton.w - 1)
        /\ d[2] \in 0..(skeleton.h - 1)}

\* route_through_array's geometric cost of one step: its length times the
\* mean of the two cells' costs.
TravelCost(skeleton, c, d) ==
    LET s == CostAt(skeleton, c) + CostAt(skeleton, d)
    IN  IF c[1] # d[1] /\ c[2] # d[2] THEN <<0, s>> ELSE <<s, 0>>

RECURSIVE Relax(_, _)
Relax(skeleton, D) ==
    LET E == [c \in Cells(skeleton.h, skeleton.w) |->
                 MinCost({D[c]} \cup
                         {CostAdd(D[d], TravelCost(skeleton, d, c)) :
                             d \in {e \in Adjacent(skeleton, c) : ~IsUnreached(D[e])}})]
    IN  IF E = D THEN D ELSE Relax(skeleton, E)

\* The minimum cumulative cost of every cell from `from`.
CumulativeCosts(skeleton, from) ==
    Relax(skeleton, [c \in Cells(skeleton.h, skeleton.w) |->
                        IF c = from THEN <<0, 0>> ELSE Unreached])

\* d reaches c at c's minimum cost
Tight(skeleton, D, d, c) ==
    /\ d \in Adjacent(skeleton, c)
    /\ CostAdd(D[d], TravelCost(skeleton, d, c)) = D[c]

\* The search records for a cell the first cell popped that reaches it at its
\* minimum cost, and pops cells in order of cost; the order among cells of
\* equal cost is the heap's, which is left open here.  p may be traced back
\* one step further, to c, when c lies on a minimum-cost route, the last cell
\* of p reaches it at its minimum cost, no cell of lower cost does, and no
\* earlier cell of p (popped before the last) does.
MayFollow(skeleton, Ds, De, end, p, c) ==
    LET d == p[Len(p)]
    IN  /\ c \notin Range(p)
        /\ CostAdd(Ds[c], De[c]) = Ds[end]
        /\ Tight(skeleton, Ds, d, c)
        /\ \A e \in Adjacent(skeleton, c) :
               Tight(skeleton, Ds, e, c) => ~CostLess(Ds[e], Ds[d])
        /\ \A j \in 1..(Len(p) - 1) : ~Tight(skeleton, Ds, p[j], c)

RECURSIVE Tracebacks(_, _, _, _, _)
Tracebacks(skeleton, Ds, De, end, p) ==
    IF p[Len(p)] = end
    THEN {p}
    ELSE UNION {Tracebacks(skeleton, Ds, De, end, Append(p, c)) :
                   c \in {e \in Adjacent(skeleton, p[Len(p)]) :
                             MayFollow(skeleton, Ds, De, end, p, e)}}

\* route_through_array returns (y, x) indices
ToRowCol(p) == [i \in 1..Len(p) |-> <<p[i][2], p[i][1]>>]

\* The values get_path(skeleton, start, end) may return: [] when
\* route_through_array raises (an index outside the array), else a
\* minimum-cost route from start to end, both included.
get_path(skeleton, start, end) ==
    IF start \notin Cells(skeleton.h, skeleton.w) \/ end \notin Cells(skeleton.h, skeleton.w)
    THEN {<<>>}
    ELSE LET Ds == CumulativeCosts(skeleton, start)
             De == CumulativeCosts(skeleton, end)
         IN  {ToRowCol(p) : p \in Tracebacks(skeleton, Ds, De, end, <<start>>)}

\* ------------------------------------------------- remove_spurious_roads
SquaredDistance(a, b) ==
    (a[1] - b[1]) * (a[1] - b[1]) + (a[2] - b[2]) * (a[2] - b[2])

\* The loop over the intersections: closest_dist starts at inf (-1 here) and
\* closest_int at None (<<>> here); dist < closest_dist compares the square
\* roots, hence the squares.
\* (mutant) if dist <= closest_dist: of the nearest intersections the last wins
RECURSIVE ClosestFromLast(_, _, _, _, _)
ClosestFromLast(endpoint, intersections, i, closest_d2, closest_int) ==
    IF i > Len(intersections)
    THEN [d2 |-> closest_d2, int |-> closest_int]
    ELSE LET d2 == SquaredDistance(endpoint, intersections[i])
         IN  IF closest_d2 < 0 \/ d2 <= closest_d2
             THEN ClosestFromLast(endpoint, intersections, i + 1, d2, intersections[i])
             ELSE ClosestFromLast(endpoint, intersections, i + 1, closest_d2, closest_int)

RECURSIVE ClosestFrom(_, _, _, _, _)
ClosestFrom(endpoint, intersections, i, closest_d2, closest_int) ==
    IF i > Len(intersections)
    THEN [d2 |-> closest_d2, int |-> closest_int]
    ELSE LET d2 == SquaredDistance(endpoint, intersections[i])
         IN  IF closest_d2 < 0 \/ d2 < closest_d2
             THEN ClosestFrom(endpoint, intersections, i + 1, d2, intersections[i])
             ELSE ClosestFrom(endpoint, intersections, i + 1, closest_d2, closest_int)

Closest(endpoint, intersections) ==
    ClosestFrom(endpoint, intersections, 1, -1, <<>>)

\* (mutant) closest_dist > self.min_road_length
IsSpuriousAbove(closest, min_road_length) ==
    /\ closest.int # <<>>
    /\ closest.d2 > min_road_length * min_road_length

\* (mutant) closest_dist <= self.min_road_length
IsSpuriousInclusive(closest, min_road_length) ==
    /\ closest.int # <<>>
    /\ closest.d2 <= min_road_length * min_road_length

\* closest_dist < self.min_road_length and closest_int is not None
IsSpurious(closest, min_road_length) ==
    /\ closest.int # <<>>
    /\ closest.d2 < min_road_length * min_road_length

\* for py, px in path: if 0 <= py < self.height and 0 <= px < self.width:
\* cleaned[py, px] = False.  The cells set to False; reading self.height
\* before process_sketch has set it raises AttributeError at the first cell,
\* and an index outside cleaned raises IndexError; the except clause catches
\* either and the rest of the path is left as it is.
RECURSIVE ErasedFrom(_, _, _, _, _)
ErasedFrom(selfHeight, selfWidth, cleaned, path, i) ==
    IF i > Len(path) \/ selfHeight = NoDim \/ selfWidth = NoDim
    THEN {}
    ELSE LET py == path[i][1]
             px == path[i][2]
         IN  IF 0 <= py /\ py < selfHeight /\ 0 <= px /\ px < selfWidth
             THEN IF <<px, py>> \in Cells(cleaned.h, cleaned.w)
                  THEN {<<px, py>>} \cup ErasedFrom(selfHeight, selfWidth, cleaned, path, i + 1)
                  ELSE {}
             ELSE ErasedFrom(selfHeight, selfWidth, cleaned, path, i + 1)

\* (mutant) cleaned[py, px] = False without the bounds check before it
ErasedUnchecked(selfHeight, selfWidth, cleaned, path) ==
    {<<path[i][2], path[i][1]>> : i \in 1..Len(path)} \cap Cells(cleaned.h, cleaned.w)

\* (mutant) for px, py in path: the path's (y, x) pairs read as (x, y)
ErasedSwapped(selfHeight, selfWidth, cleaned, path) ==
    ErasedFrom(selfHeight, selfWidth, cleaned, ToRowCol(path), 1)

Erased(selfHeight, selfWidth, cleaned, path) ==
    ErasedFrom(selfHeight, selfWidth, cleaned, path, 1)

\* (mutant) no try/except around get_path or in it: the first path that cannot
\* be found ends the loop.
RECURSIVE PruneFromAborting(_, _, _, _, _, _, _, _, _)
PruneFromAborting(selfHeight, selfWidth, min_road_length, skeleton, endpoints, intersections, i, cleaned, trace) ==
    IF i > Len(endpoints)
    THEN {[cleaned |-> cleaned, trace |-> trace]}
    ELSE LET endpoint == endpoints[i]
             closest == Closest(endpoint, intersections)
         IN  IF ~IsSpurious(closest, min_road_length)
             THEN PruneFromAborting(selfHeight, selfWidth, min_road_length, skeleton,
                                    endpoints, intersections, i + 1, cleaned,
                                    Append(trace, [endpoint |-> endpoint, closest |-> closest,
                                                   called |-> FALSE, path |-> <<>>,
                                                   erased |-> {}]))
             ELSE UNION {
                    LET gone == Erased(selfHeight, selfWidth, cleaned, path)
                        done == Append(trace, [endpoint |-> endpoint, closest |-> closest,
                                               called |-> TRUE, path |-> path,
                                               erased |-> gone])
                    IN  IF path = <<>>
                        THEN {[cleaned |-> cleaned, trace |-> done]}
                        ELSE PruneFromAborting(selfHeight, selfWidth, min_road_length,
                                               skeleton, endpoints, intersections, i + 1,
                                               [cleaned EXCEPT !.fg = @ \ gone], done)
                    : path \in get_path(skeleton, endpoint, closest.int)}

\* (mutant) path = self.get_path(cleaned, endpoint, closest_int): the path is
\* sought on the raster as cleaned so far.
RECURSIVE PruneFromCleaned(_, _, _, _, _, _, _, _, _)
PruneFromCleaned(selfHeight, selfWidth, min_road_length, skeleton, endpoints, intersections, i, cleaned, trace) ==
    IF i > Len(endpoints)
    THEN {[cleaned |-> cleaned, trace |-> trace]}
    ELSE LET endpoint == endpoints[i]
             closest == Closest(endpoint, intersections)
         IN  IF ~IsSpurious(closest, min_road_length)
             THEN PruneFromCleaned(selfHeight, selfWidth, min_road_length, skeleton,
                                   endpoints, intersections, i + 1, cleaned,
                                   Append(trace, [endpoint |-> endpoint, closest |-> closest,
                                                  called |-> FALSE, path |-> <<>>,
                                                  erased |-> {}]))
             ELSE UNION {
                    LET gone == Erased(selfHeight, selfWidth, cleaned, path)
                    IN  PruneFromCleaned(selfHeight, selfWidth, min_road_length, skeleton,
                                         endpoints, intersections, i + 1,
                                         [cleaned EXCEPT !.fg = @ \ gone],
                                         Append(trace, [endpoint |-> endpoint,
                                                        closest |-> closest,
                                                        called |-> TRUE, path |-> path,
                                                        erased |-> gone]))
                    : path \in get_path(cleaned, endpoint, closest.int)}

\* (mutant) the path is computed for every endpoint, before its distance is
\* looked at
RECURSIVE PruneFromEager(_, _, _, _, _, _, _, _, _)
PruneFromEager(selfHeight, selfWidth, min_road_length, skeleton, endpoints, intersections, i, cleaned, trace) ==
    IF i > Len(endpoints)
    THEN {[cleaned |-> cleaned, trace |-> trace]}
    ELSE LET endpoint == endpoints[i]
             closest == Closest(endpoint, intersections)
         IN  UNION {
               LET gone == IF IsSpurious(closest, min_road_length)
                           THEN Erased(selfHeight, selfWidth, cleaned, path)
                           ELSE {}
               IN  PruneFromEager(selfHeight, selfWidth, min_road_length, skeleton,
                                  endpoints, intersections, i + 1,
                                  [cleaned EXCEPT !.fg = @ \ gone],
                                  Append(trace, [endpoint |-> endpoint, closest |-> closest,
                                                 called |-> TRUE, path |-> path,
                                                 erased |-> gone]))
               : path \in IF closest.int = <<>>
                          THEN {<<>>}
                          ELSE get_path(skeleton, endpoint, closest.int)}

\* One pass of the loop over the endpoints, from the i-th on.  The result is
\* the set of the outcomes the call may have: cleaned, and for every endpoint
\* in turn a record of what was done for it (called: get_path was called).
RECURSIVE PruneFrom(_, _, _, _, _, _, _, _, _)
PruneFrom(selfHeight, selfWidth, min_road_length, skeleton, endpoints, intersections, i, cleaned, trace) ==
    IF i > Len(endpoints)
    THEN {[cleaned |-> cleaned, trace |-> trace]}
    ELSE LET endpoint == endpoints[i]
             closest == Closest(endpoint, intersections)
         IN  IF ~IsSpurious(closest, min_road_length)
             THEN PruneFrom(selfHeight, selfWidth, min_road_length, skeleton, endpoints,
                            intersections, i + 1, cleaned,
                            Append(trace, [endpoint |-> endpoint, closest |-> closest,
                                           called |-> FALSE, path |-> <<>>,
                                           erased |-> {}]))
             ELSE UNION {
                    LET gone == Erased(selfHeight, selfWidth, cleaned, path)
                    IN  PruneFrom(selfHeight, selfWidth, min_road_length, skeleton,
                                  endpoints, intersections, i + 1,
                                  [cleaned EXCEPT !.fg = @ \ gone],
                                  Append(trace, [endpoint |-> endpoint, closest |-> closest,
                                                 called |-> TRUE, path |-> path,
                                                 erased |-> gone]))
                    : path \in get_path(skeleton, endpoint, closest.int)}

\* (mutant) cleaned = skeleton: no copy is made, cleaned is the array passed in
no_copy(array) == array

\* cleaned = skeleton.copy(): the array object cleaned names, a new one
copy(array) == "copy"

\* What the array objects hold when remove_spurious_roads returns: the writes
\* cleaned[py, px] = False went to the array cleaned names.
Written(skeleton, cleaned) ==
    [[skeleton |-> skeleton, copy |-> skeleton] EXCEPT ![copy("skeleton")] = cleaned]

\* (mutant) cleaned = np.zeros((self.height, self.width), dtype=bool) filled
\* from the skeleton: the cleaner's shape in place of the skeleton's
remove_spurious_roads_self_shape(selfHeight, selfWidth, min_road_length, skeleton, endpoints, intersections) ==
    PruneFrom(selfHeight, selfWidth, min_road_length, skeleton, endpoints, intersections,
              1, [h |-> selfHeight, w |-> selfWidth, fg |-> skeleton.fg], <<>>)

\* (mutant) every endpoint is erased before its distance is looked at
remove_spurious_roads_endpoints_first(selfHeight, selfWidth, min_road_length, skeleton, endpoints, intersections) ==
    PruneFrom(selfHeight, selfWidth, min_road_length, skeleton, endpoints, intersections,
              1, [skeleton EXCEPT !.fg = @ \ Range(endpoints)], <<>>)

\* cleaned = skeleton.copy(); ...; return cleaned
remove_spurious_roads(selfHeight, selfWidth, min_road_length, skeleton, endpoints, intersections) ==
    PruneFrom(selfHeight, selfWidth, min_road_length, skeleton, endpoints, intersections,
              1, skeleton, <<>>)

\* ---------------------------------------------------------- process_sketch
\* A sketch is a single-channel image [h, w, px]: px[c] the grey level of
\* cell c.  The sketches tried have two grey levels, a darker and a brighter.
Tones == {<<0, 255>>, <<Threshold, Threshold + 1>>}

SketchOf(raster, tone) ==
    [h |-> raster.h, w |-> raster.w, shape |-> <<raster.h, raster.w>>,
     px |-> [c \in Cells(raster.h, raster.w) |->
                IF c \in raster.fg THEN tone[2] ELSE tone[1]]]

\* The sketches process_sketch is given: the blank sketch of MaxH rows and
\* MaxW columns, and the sketches of two of the rasters named above.
Sketches ==
    {SketchOf(r, t) :
        r \in {[h |-> MaxH, w |-> MaxW, fg |-> {}], EllRaster, DotRaster}, t \in Tones}

\* (mutant) a pixel at the threshold counts as foreground
BinarizedInclusive(sketch_img) ==
    [h |-> sketch_img.h, w |-> sketch_img.w,
     fg |-> {c \in Cells(sketch_img.h, sketch_img.w) : sketch_img.px[c] >= Threshold}]

\* _, binary = cv2.threshold(sketch_img, 127, 255, cv2.THRESH_BINARY);
\* binary > 0
Binarized(sketch_img) ==
    [h |-> sketch_img.h, w |-> sketch_img.w,
     fg |-> {c \in Cells(sketch_img.h, sketch_img.w) : sketch_img.px[c] > Threshold}]

\* skimage's skeletonize thins the foreground: what it returns has the shape
\* of its argument and keeps some of its foreground cells.  Which ones is the
\* library's business; every choice is allowed for here.
skeletonize(binary) ==
    {[binary EXCEPT !.fg = s] : s \in SUBSET binary.fg}

\* What a variable holds when no raster was made.
NoRaster == [h |-> 0, w |-> 0, fg |-> {}]

\* (mutant) the pruning threshold is read from self.intersection_radius
process_sketch_radius(selfMinRoadLength, selfIntersectionRadius, sketch_img) ==
    UNION {
        LET found == find_network_points(sketch_img.h, sketch_img.w, sk)
        IN  IF found.raised = "none"
            THEN {[skeleton |-> sk, raised |-> "none", endpoints |-> found.endpoints,
                   intersections |-> found.intersections, cleaned |-> r.cleaned,
                   trace |-> r.trace] :
                     r \in remove_spurious_roads(sketch_img.h, sketch_img.w,
                                                 selfIntersectionRadius, sk,
                                                 found.endpoints, found.intersections)}
            ELSE {[skeleton |-> sk, raised |-> found.raised,
                   endpoints |-> found.endpoints,
                   intersections |-> found.intersections, cleaned |-> NoRaster,
                   trace |-> <<>>]}
        : sk \in skeletonize(Binarized(sketch_img))}

\* (mutant) the raster is classified again after the pass and pruned again
process_sketch_again(selfMinRoadLength, selfIntersectionRadius, sketch_img) ==
    UNION {
        LET found == find_network_points(sketch_img.h, sketch_img.w, sk)
        IN  UNION {
              LET again == find_network_points(sketch_img.h, sketch_img.w, r.cleaned)
              IN  {[skeleton |-> sk, raised |-> "none", endpoints |-> found.endpoints,
                    intersections |-> found.intersections, cleaned |-> q.cleaned,
                    trace |-> r.trace \o q.trace] :
                      q \in remove_spurious_roads(sketch_img.h, sketch_img.w,
                                                  selfMinRoadLength, r.cleaned,
                                                  again.endpoints, again.intersections)}
              : r \in remove_spurious_roads(sketch_img.h, sketch_img.w,
                                            selfMinRoadLength, sk,
                                            found.endpoints, found.intersections)}
        : sk \in skeletonize(Binarized(sketch_img))}

\* process_sketch from line 23 on, for a sketch lines 15-20 take, on a cleaner
\* whose min_road_length and intersection_radius are as given: the outcomes
\* the call may have.  self.height and self.width are the sketch's, set by
\* line 15.  self.intersection_radius is read nowhere.
process_sketch(selfMinRoadLength, selfIntersectionRadius, sketch_img) ==
    UNION {
        LET found == find_network_points(sketch_img.h, sketch_img.w, sk)
        IN  IF found.raised = "none"
            THEN {[skeleton |-> sk, raised |-> "none", endpoints |-> found.endpoints,
                   intersections |-> found.intersections, cleaned |-> r.cleaned,
                   trace |-> r.trace] :
                     r \in remove_spurious_roads(sketch_img.h, sketch_img.w,
                                                 selfMinRoadLength, sk,
                                                 found.endpoints, found.intersections)}
            ELSE {[skeleton |-> sk, raised |-> found.raised,
                   endpoints |-> found.endpoints,
                   intersections |-> found.intersections, cleaned |-> NoRaster,
                   trace |-> <<>>]}
        : sk \in skeletonize(Binarized(sketch_img))}

\* ----------------------------------------- validate_network_connectivity
\* A graph is [n, data, edges]: the nodes 1..n in the order G.nodes gives
\* them, data[v] the x and y of node v, edges a set of unordered pairs.
NoGraph == [n |-> 0, data |-> <<>>, edges |-> {}]

\* The places a node may lie at: on the western side of the polygon, one
\* margin inside every side, on the northern side.
Places == {[x |-> 0, y |-> Margin], [x |-> Margin, y |-> Margin],
           [x |-> Margin, y |-> 2 * Margin]}

\* polygon.bounds of the sampling box: minx, miny, maxx, maxy
Polygon == [bounds |-> <<0, 0, 2 * Margin, 2 * Margin>>]

Graphs ==
    UNION {[n : {n}, data : [1..n -> Places],
            edges : SUBSET {e \in SUBSET (1..n) : Cardinality(e) = 2}] :
              n \in 0..MaxNodes}

Abs(a) == IF a < 0 THEN -a ELSE a

\* The nodes from the i-th on that lie within the margin of a side of the
\* polygon's bounds, in the order of G.nodes.
RECURSIVE BorderNodesFrom(_, _, _)
BorderNodesFrom(graph, polygon, i) ==
    IF i > graph.n
    THEN <<>>
    ELSE LET lat == graph.data[i].y
             lon == graph.data[i].x
             minx == polygon.bounds[1]
             miny == polygon.bounds[2]
             maxx == polygon.bounds[3]
             maxy == polygon.bounds[4]
         IN  IF \/ Abs(lat - miny) < Margin
                \/ Abs(lat - maxy) < Margin
                \/ Abs(lon - minx) < Margin
                \/ Abs(lon - maxx) < Margin
             THEN <<i>> \o BorderNodesFrom(graph, polygon, i + 1)
             ELSE BorderNodesFrom(graph, polygon, i + 1)

get_border_nodes(graph, polygon) == BorderNodesFrom(graph, polygon, 1)

\* The nodes a path of the graph joins to one of S.
RECURSIVE Component(_, _)
Component(graph, S) ==
    LET T == S \cup {v \in 1..graph.n : \E u \in S : {u, v} \in graph.edges}
    IN  IF T = S THEN S ELSE Component(graph, T)

\* nx.has_path(G, source, target)
has_path(graph, source, target) == target \in Component(graph, {source})

\* (mutant) the connectivity test is left out
is_connected_skipped(graph) == TRUE

\* nx.is_connected(G), for a graph with a node
is_connected(graph) == Component(graph, {1}) = 1..graph.n

\* The loop over border_nodes[:-1] from the i-th on: FALSE when it returns
\* False for a start none of the later border nodes has a path to, TRUE when
\* it runs to its end.
RECURSIVE BorderPathsFrom(_, _, _)
BorderPathsFrom(graph, border_nodes, i) ==
    IF i > Len(border_nodes) - 1
    THEN TRUE
    ELSE IF \E j \in (i + 1)..Len(border_nodes) :
                has_path(graph, border_nodes[i], border_nodes[j])
         THEN BorderPathsFrom(graph, border_nodes, i + 1)
         ELSE FALSE

validate_network_connectivity(graph, polygon) ==
    LET border_nodes == get_border_nodes(graph, polygon)
    IN  IF Len(border_nodes) < 2 THEN FALSE
        ELSE IF ~is_connected(graph) THEN FALSE
        ELSE BorderPathsFrom(graph, border_nodes, 1)

\* --------------------------------------------------------------- the state
VARIABLES
    height,           \* self.height (NoDim: not set)
    width,            \* self.width
    min_road_length,  \* self.min_road_length
    intersection_radius, \* self.intersection_radius
    op,               \* the call that returned last ("idle": none is held)
    sketch,           \* process_sketch's argument
    binary,           \* binary > 0, what process_sketch hands skeletonize
    skeleton,         \* the skeleton the call worked on
    endpoints,        \* find_network_points' result, remove_spurious_roads' argument
    intersections,
    raised,           \* the exception the call raised ("none": it returned)
    cleaned,          \* remove_spurious_roads' result
    trace,            \* what remove_spurious_roads did for each endpoint
    arrays,           \* the array objects of the call and what they hold now
    returned,         \* the array object the call returned ("none": no array)
    comparison,       \* the shape of what visualize_cleanup returned
    calls,            \* the process_sketch calls in progress on the cleaner
    G,                \* the graph validate_network_connectivity was given last
    valid             \* what it returned, as <<value>> (<<>>: not called yet)

vars == <<height, width, min_road_length, intersection_radius, op, sketch, binary,
          skeleton, endpoints, intersections, raised, cleaned, trace, arrays, returned,
          comparison, calls, G, valid>>

\* The variables of the road network cleaner.
cleaner == <<height, width, min_road_length, intersection_radius, op, sketch, binary,
             skeleton, endpoints, intersections, raised, cleaned, trace, arrays,
             returned, comparison, calls>>


NoSketch == [h |-> 0, w |-> 0, shape |-> <<0, 0>>, px |-> <<>>]

\* The arrays process_sketch is given that are no single-channel raster with
\* pixels: shape (0, 0), (0, MaxW) and (MaxH, 0), which hold no pixel, a
\* one-dimensional array of shape (MaxW,), and an array of shape
\* (MaxH, MaxW, 2), which cv2.cvtColor cannot take for a BGR image.
InvalidSketches ==
    {NoSketch,
     [h |-> 0, w |-> MaxW, shape |-> <<0, MaxW>>, px |-> <<>>],
     [h |-> MaxH, w |-> 0, shape |-> <<MaxH, 0>>, px |-> <<>>],
     [h |-> 0, w |-> 0, shape |-> <<MaxW>>, px |-> <<>>],
     [h |-> MaxH, w |-> MaxW, shape |-> <<MaxH, MaxW, 2>>, px |-> <<>>]}

\* (mutant) cv2.threshold hands back an array for an image without pixels
RejectedUnlessShape(sketch_img) ==
    IF Len(sketch_img.shape) < 2 THEN "ValueError"
    ELSE IF Len(sketch_img.shape) > 2 /\ sketch_img.shape[3] \notin {3, 4} THEN "cv2.error"
    ELSE "none"

\* The exception lines 15-23 of process_sketch raise, "none" if they do not.
\* Line 15 unpacks shape[:2] into two names, a ValueError for an array of
\* fewer than 2 dimensions.  Line 19 converts an array of more than 2
\* dimensions with cv2.cvtColor(..., COLOR_BGR2GRAY), which raises unless the
\* image has 3 or 4 channels.  For an image without pixels cv2.threshold
\* hands back None for binary, and binary > 0 on line 23 is a TypeError.
Rejected(sketch_img) ==
    IF Len(sketch_img.shape) < 2 THEN "ValueError"
    ELSE IF Len(sketch_img.shape) > 2 /\ sketch_img.shape[3] \notin {3, 4} THEN "cv2.error"
    ELSE IF sketch_img.shape[1] = 0 \/ sketch_img.shape[2] = 0 THEN "TypeError"
    ELSE "none"

\* The array objects a call works with: the skeleton it is given, and the
\* array skeleton.copy() makes.
NoArrays == [skeleton |-> NoRaster, copy |-> NoRaster]

NoComparison == [h |-> 0, w |-> 0]

\* The two callers of process_sketch that may run at the same time.
Threads == {1, 2}

NoCall ==
    [pc |-> "idle", sketch |-> NoSketch, skeleton |-> NoRaster, endpoints |-> <<>>,
     intersections |-> <<>>, raised |-> "none", cleaned |-> NoRaster]

NoCalls == [t \in Threads |-> NoCall]

\* The values a caller sets min_road_length to.
MinRoadLengths == {DefaultMinRoadLength, 4, 2}

\* The endpoints and intersections of a raster, as a cleaner whose height and
\* width are the raster's finds them.
Classified(raster) == find_network_points(raster.h, raster.w, raster)

\* The endpoint and intersection lists a caller passes to
\* remove_spurious_roads with a raster: the raster's own; its own endpoints
\* with no intersection, or with its first cell for one; no endpoint; its
\* first cell as endpoint with a coordinate right of its last column as
\* intersection; that coordinate and the first cell as endpoints.
GivenLists(raster) ==
    LET own == Classified(raster)
    IN  {<<own.endpoints, own.intersections>>,
         <<own.endpoints, <<>>>>,
         <<own.endpoints, <<<<0, 0>>>>>>,
         <<<<>>, own.intersections>>,
         <<<<<<0, 0>>>>, <<<<raster.w, 0>>>>>>,
         <<<<<<raster.w, 0>>, <<0, 0>>>>, own.intersections>>}

\* RoadNetworkCleaner()
Init ==
    /\ height = NoDim
    /\ width = NoDim
    /\ min_road_length = DefaultMinRoadLength
    /\ intersection_radius = DefaultIntersectionRadius
    /\ op = "idle"
    /\ sketch = NoSketch
    /\ binary = NoRaster
    /\ skeleton = NoRaster
    /\ endpoints = <<>>
    /\ intersections = <<>>
    /\ raised = "none"
    /\ cleaned = NoRaster
    /\ trace = <<>>
    /\ arrays = NoArrays
    /\ returned = "none"
    /\ comparison = NoComparison
    /\ calls = NoCalls
    /\ G = NoGraph
    /\ valid = <<>>

\* cleaner.min_road_length = m
SetMinRoadLength(m) ==
    /\ op = "idle"
    /\ m # min_road_length
    /\ min_road_length' = m
    /\ UNCHANGED <<intersection_radius, height, width, op, sketch, binary, skeleton,
                   endpoints, intersections, raised, cleaned, trace, arrays, returned,
                   comparison, calls, G, valid>>

\* cleaner.find_network_points(s)
FindNetworkPoints(s) ==
    /\ op = "idle"
    /\ LET r == find_network_points(height, width, s)
       IN  /\ raised' = r.raised
           /\ endpoints' = r.endpoints
           /\ intersections' = r.intersections
    /\ op' = "find_network_points"
    /\ skeleton' = s
    /\ arrays' = [skeleton |-> s, copy |-> NoRaster]
    /\ UNCHANGED <<height, width, min_road_length, intersection_radius, sketch, binary,
                   cleaned, trace, returned, comparison, calls, G, valid>>

\* cleaner.remove_spurious_roads(s, eps, ints)
RemoveSpuriousRoads(s, eps, ints) ==
    /\ \E r \in remove_spurious_roads(height, width, min_road_length, s, eps, ints) :
           /\ cleaned' = r.cleaned
           /\ trace' = r.trace
           /\ arrays' = Written(s, r.cleaned)
    /\ returned' = copy("skeleton")
    /\ op' = "remove_spurious_roads"
    /\ skeleton' = s
    /\ endpoints' = eps
    /\ intersections' = ints
    /\ raised' = "none"
    /\ UNCHANGED <<height, width, min_road_length, intersection_radius, sketch, binary,
                   comparison, calls, G, valid>>

\* endpoints, intersections = cleaner.find_network_points(s);
\* cleaner.remove_spurious_roads(s, endpoints, intersections)
RemoveClassified ==
    /\ op = "find_network_points"
    /\ raised = "none"
    /\ RemoveSpuriousRoads(skeleton, endpoints, intersections)

\* cleaner.remove_spurious_roads(s, eps, ints) with lists of the caller's own
RemoveGiven ==
    /\ op = "idle"
    /\ \E s \in Skeletons :
           \E given \in GivenLists(s) : RemoveSpuriousRoads(s, given[1], given[2])

\* cleaner.process_sketch(sketch_img)
ProcessSketch(sketch_img) ==
    /\ op = "idle"
    /\ IF Rejected(sketch_img) # "none"
       THEN /\ raised' = Rejected(sketch_img)
            /\ skeleton' = NoRaster
            /\ endpoints' = <<>>
            /\ intersections' = <<>>
            /\ cleaned' = NoRaster
            /\ trace' = <<>>
            /\ arrays' = NoArrays
            /\ returned' = "none"
       ELSE \E o \in process_sketch(min_road_length, intersection_radius, sketch_img) :
               /\ skeleton' = o.skeleton
               /\ raised' = o.raised
               /\ endpoints' = o.endpoints
               /\ intersections' = o.intersections
               /\ cleaned' = o.cleaned
               /\ trace' = o.trace
               /\ IF o.raised = "none"
                  THEN /\ arrays' = Written(o.skeleton, o.cleaned)
                       /\ returned' = copy("skeleton")
                  ELSE /\ arrays' = [skeleton |-> o.skeleton, copy |-> NoRaster]
                       /\ returned' = "none"
    /\ height' = IF Len(sketch_img.shape) < 2 THEN height ELSE sketch_img.shape[1]
    /\ width' = IF Len(sketch_img.shape) < 2 THEN width ELSE sketch_img.shape[2]
    /\ sketch' = sketch_img
    /\ binary' = IF Rejected(sketch_img) # "none" THEN NoRaster ELSE Binarized(sketch_img)
    /\ op' = "process_sketch"
    /\ UNCHANGED <<min_road_length, intersection_radius, comparison, calls, G, valid>>

\* cleaner.get_path(s, start, end)
GetPath(s, start, end) ==
    /\ op = "idle"
    /\ \E path \in get_path(s, start, end) :
           trace' = <<[endpoint |-> start, closest |-> [d2 |-> 0, int |-> end],
                       called |-> TRUE, path |-> path, erased |-> {}]>>
    /\ op' = "get_path"
    /\ skeleton' = s
    /\ arrays' = [skeleton |-> s, copy |-> NoRaster]
    /\ UNCHANGED <<height, width, min_road_length, intersection_radius, sketch, binary,
                   endpoints, intersections, raised, cleaned, returned, comparison,
                   calls, G, valid>>

\* The rasters and the points a caller gives get_path.
GetPathInputs ==
    {<<s, start, end>> \in {EllRaster, ForkRaster} \X Cells(3, 4) \X Cells(3, 4) :
        /\ start \in s.fg
        /\ end \in s.fg \cup {<<0, 0>>, <<s.w, 0>>}}

\* cleaned[:] = False by the caller, on the raster remove_spurious_roads
\* returned to it.
ModifyReturned ==
    /\ op = "remove_spurious_roads"
    /\ op' = "modify"
    /\ arrays' = [arrays EXCEPT ![returned].fg = {}]
    /\ endpoints' = <<>>
    /\ intersections' = <<>>
    /\ cleaned' = NoRaster
    /\ trace' = <<>>
    /\ UNCHANGED <<height, width, min_road_length, intersection_radius, sketch, binary,
                   skeleton, raised, returned, comparison, calls, G, valid>>

\* comparison = visualize_cleanup(sketch, cleaned_network), on what
\* process_sketch returned: RoadNetworkCleaner() is a new cleaner, whose
\* find_network_points classifies cleaned; np.hstack puts the two H x W
\* images side by side.  cleaned * 255 is a new array; cleaned is not written.
VisualizeCleanup ==
    /\ op = "process_sketch"
    /\ raised = "none"
    /\ LET found == find_network_points(NoDim, NoDim, cleaned)
       IN  /\ raised' = found.raised
           /\ endpoints' = found.endpoints
           /\ intersections' = found.intersections
           /\ comparison' = IF found.raised = "none"
                            THEN [h |-> sketch.h, w |-> sketch.w + cleaned.w]
                            ELSE NoComparison
    /\ op' = "visualize_cleanup"
    /\ UNCHANGED <<height, width, min_road_length, intersection_radius, sketch, binary,
                   skeleton, cleaned, trace, arrays, returned, calls, G, valid>>

\* The caller drops what the last call returned.
Discard ==
    /\ op # "idle"
    /\ op' = "idle"
    /\ sketch' = NoSketch
    /\ binary' = NoRaster
    /\ skeleton' = NoRaster
    /\ endpoints' = <<>>
    /\ intersections' = <<>>
    /\ raised' = "none"
    /\ cleaned' = NoRaster
    /\ trace' = <<>>
    /\ arrays' = NoArrays
    /\ returned' = "none"
    /\ comparison' = NoComparison
    /\ UNCHANGED <<height, width, min_road_length, intersection_radius, calls, G,
                   valid>>

Next ==
    \/ \E m \in MinRoadLengths : SetMinRoadLength(m)
    \/ \E s \in Skeletons : FindNetworkPoints(s)
    \/ RemoveClassified
    \/ RemoveGiven
    \/ \E sketch_img \in Sketches : ProcessSketch(sketch_img)
    \/ \E i \in GetPathInputs : GetPath(i[1], i[2], i[3])
    \/ ModifyReturned
    \/ VisualizeCleanup
    \/ Discard

Spec == Init /\ [][Next]_vars

\* ------------------------------------------- process_sketch and its argument
\* process_sketch is given the sketches above and arrays that are no sketch.
NextSketches ==
    \/ \E m \in MinRoadLengths : SetMinRoadLength(m)
    \/ \E sketch_img \in Sketches \cup InvalidSketches : ProcessSketch(sketch_img)
    \/ Discard

SpecSketches == Init /\ [][NextSketches]_vars

\* ------------------------------------- process_sketch and the cleaner's radius
\* The values a caller gives self.intersection_radius.
IntersectionRadii == {DefaultIntersectionRadius, 1, 50}

\* cleaner.intersection_radius = r
SetIntersectionRadius(r) ==
    /\ op = "idle"
    /\ intersection_radius' = r
    /\ UNCHANGED <<height, width, min_road_length, op, sketch, binary, skeleton,
                   endpoints, intersections, raised, cleaned, trace, arrays, returned,
                   comparison, calls, G, valid>>

NextRadius ==
    \/ \E r \in IntersectionRadii : SetIntersectionRadius(r)
    \/ \E m \in MinRoadLengths : SetMinRoadLength(m)
    \/ \E sketch_img \in Sketches : ProcessSketch(sketch_img)
    \/ Discard

SpecRadius == Init /\ [][NextRadius]_vars

\* ------------------------------------ the cleaner of road_network_cleaner.py
\* process_sketch of road_network_cleaner.py, for a sketch lines 18-24 take:
\* the outcomes the call may have.  Line 20 sets the object's height and
\* width, line 24 thresholds, line 28 skeletonizes, and line 32 calls
\* self.find_network_points, which the class of this file does not define:
\* AttributeError, with nothing classified, pruned or returned.
road_network_cleaner_process_sketch(sketch_img) ==
    {[skeleton |-> sk, raised |-> "AttributeError", endpoints |-> <<>>,
      intersections |-> <<>>, cleaned |-> NoRaster, trace |-> <<>>] :
        sk \in skeletonize(Binarized(sketch_img))}

\* road_network_cleaner.RoadNetworkCleaner().process_sketch(sketch_img), on an
\* object of its own: the cleaner of exec.py is left as it is.
ProcessSketchOther(sketch_img) ==
    /\ op = "idle"
    /\ \E o \in road_network_cleaner_process_sketch(sketch_img) :
           /\ skeleton' = o.skeleton
           /\ raised' = o.raised
           /\ endpoints' = o.endpoints
           /\ intersections' = o.intersections
           /\ cleaned' = o.cleaned
           /\ trace' = o.trace
           /\ arrays' = [skeleton |-> o.skeleton, copy |-> NoRaster]
    /\ returned' = "none"
    /\ sketch' = sketch_img
    /\ binary' = Binarized(sketch_img)
    /\ op' = "road_network_cleaner.process_sketch"
    /\ UNCHANGED <<height, width, min_road_length, intersection_radius, comparison,
                   calls, G, valid>>

NextBoth ==
    \/ \E m \in MinRoadLengths : SetMinRoadLength(m)
    \/ \E sketch_img \in Sketches : ProcessSketch(sketch_img)
    \/ \E sketch_img \in Sketches : ProcessSketchOther(sketch_img)
    \/ Discard

SpecBoth == Init /\ [][NextBoth]_vars

\* ----------------------------------------------- validating a road network
\* validate_network_connectivity(graph, Polygon)
ValidateNetworkConnectivity(graph) ==
    /\ valid = <<>>
    /\ G' = graph
    /\ valid' = <<validate_network_connectivity(graph, Polygon)>>
    /\ UNCHANGED cleaner

\* The caller drops the graph and what was returned for it.
DiscardGraph ==
    /\ valid # <<>>
    /\ G' = NoGraph
    /\ valid' = <<>>
    /\ UNCHANGED cleaner

NextConnectivity ==
    \/ \E graph \in Graphs : ValidateNetworkConnectivity(graph)
    \/ DiscardGraph

SpecConnectivity == Init /\ [][NextConnectivity]_vars

\* ------------------------------------ two process_sketch calls on one cleaner
\* Two callers each call process_sketch once on the same RoadNetworkCleaner.
\* A call is taken in four steps, at the places where it touches the object:
\* line 15, which writes self.height and self.width; lines 18-23, which do
\* not touch it; line 26, find_network_points, which reads them; line 29,
\* remove_spurious_roads, which reads them.  The reads of one step are taken
\* together.
\* self.height, self.width = sketch_img.shape[:2]
SetDimensions(t, sketch_img) ==
    /\ calls[t].pc = "idle"
    /\ height' = sketch_img.h
    /\ width' = sketch_img.w
    /\ calls' = [calls EXCEPT ![t].pc = "dimensions", ![t].sketch = sketch_img]
    /\ UNCHANGED <<min_road_length, intersection_radius, op, sketch, binary, skeleton,
                   endpoints, intersections, raised, cleaned, trace, arrays, returned,
                   comparison, G, valid>>

\* _, binary = cv2.threshold(...); skeleton = skeletonize(binary > 0)
Skeletonize(t) ==
    /\ calls[t].pc = "dimensions"
    /\ \E sk \in skeletonize(Binarized(calls[t].sketch)) :
           calls' = [calls EXCEPT ![t].pc = "skeleton", ![t].skeleton = sk]
    /\ UNCHANGED <<height, width, min_road_length, intersection_radius, op, sketch,
                   binary, skeleton, endpoints, intersections, raised, cleaned, trace,
                   arrays, returned, comparison, G, valid>>

\* endpoints, intersections = self.find_network_points(skeleton)
Classify(t) ==
    /\ calls[t].pc = "skeleton"
    /\ LET found == find_network_points(height, width, calls[t].skeleton)
       IN  calls' = [calls EXCEPT ![t].pc = IF found.raised = "none" THEN "points" ELSE "done",
                                  ![t].raised = found.raised,
                                  ![t].endpoints = found.endpoints,
                                  ![t].intersections = found.intersections]
    /\ UNCHANGED <<height, width, min_road_length, intersection_radius, op, sketch,
                   binary, skeleton, endpoints, intersections, raised, cleaned, trace,
                   arrays, returned, comparison, G, valid>>

\* cleaned_network = self.remove_spurious_roads(...); return cleaned_network
Prune(t) ==
    /\ calls[t].pc = "points"
    /\ \E r \in remove_spurious_roads(height, width, min_road_length, calls[t].skeleton,
                                      calls[t].endpoints, calls[t].intersections) :
           calls' = [calls EXCEPT ![t].pc = "done", ![t].cleaned = r.cleaned]
    /\ UNCHANGED <<height, width, min_road_length, intersection_radius, op, sketch,
                   binary, skeleton, endpoints, intersections, raised, cleaned, trace,
                   arrays, returned, comparison, G, valid>>

NextThreads ==
    \E t \in Threads :
        \/ \E sketch_img \in Sketches : SetDimensions(t, sketch_img)
        \/ Skeletonize(t)
        \/ Classify(t)
        \/ Prune(t)

SpecThreads == Init /\ [][NextThreads]_vars

\* ============================================================== the claims
\* The number of foreground cells among the 8 cells around c, counted on the
\* raster itself: cells outside the raster count as background.
Around(raster, c) ==
    Cardinality({d \in raster.fg :
                    /\ d # c
                    /\ d[1] - c[1] \in -1..1
                    /\ d[2] - c[2] \in -1..1})

Returned == raised = "none"

Found == op = "find_network_points" /\ Returned

Removed == op = "remove_spurious_roads" /\ Returned

\* The cells erased for any endpoint of the last remove_spurious_roads.
AllErased == UNION {trace[i].erased : i \in 1..Len(trace)}

\* The cells of the paths get_path returned in the last remove_spurious_roads.
OnPaths ==
    UNION {{<<trace[i].path[k][2], trace[i].path[k][1]>> : k \in 1..Len(trace[i].path)} :
              i \in 1..Len(trace)}

\* C1: find_network_points(skeleton) reports a pixel as an endpoint iff it is
\* foreground and exactly 1 of its 8 surrounding cells is foreground, as an
\* intersection iff it is foreground and more than 2 are, and reports nothing
\* else, for every raster of height >= 1 and width >= 1.
C1_ClassifiesEveryPixel ==
    op = "find_network_points" =>
        /\ Returned
        /\ \A c \in Cells(skeleton.h, skeleton.w) \cup Range(endpoints)
                      \cup Range(intersections) :
               /\ c \in Range(endpoints) <=>
                      (c \in skeleton.fg /\ Around(skeleton, c) = 1)
               /\ c \in Range(intersections) <=>
                      (c \in skeleton.fg /\ Around(skeleton, c) > 2)

\* C2: on the 10x10 T-shaped raster find_network_points reports exactly the
\* endpoints (1,5), (8,5), (4,2) and exactly one intersection, (4,5).  Stated
\* for a cleaner whose height and width are 10.
C2_TScenarioPoints ==
    (op = "find_network_points" /\ skeleton = TRaster /\ height = 10 /\ width = 10) =>
        /\ Returned
        /\ Range(endpoints) = {<<1, 5>>, <<8, 5>>, <<4, 2>>}
        /\ intersections = <<<<4, 5>>>>

\* C3: on the T-shaped raster, classify then remove_spurious_roads with
\* min_road_length = 4 sets (4,2), (4,3), (4,4) to background and leaves every
\* pixel of the line (1,5)..(8,5) foreground.  Stated for a cleaner whose
\* height and width are 10.
C3_TScenarioPruned ==
    (/\ Removed
     /\ skeleton = TRaster
     /\ height = 10
     /\ width = 10
     /\ min_road_length = 4
     /\ endpoints = Classified(TRaster).endpoints
     /\ intersections = Classified(TRaster).intersections) =>
        /\ cleaned.fg \cap {<<4, 2>>, <<4, 3>>, <<4, 4>>} = {}
        /\ {<<x, 5>> : x \in 1..8} \subseteq cleaned.fg

\* C4: remove_spurious_roads erases a path for an endpoint only if the
\* distance to its nearest intersection is strictly less than
\* min_road_length; an endpoint whose nearest intersection is at that
\* distance or more is skipped (get_path is not called for it) and stays
\* foreground unless it lies on another endpoint's erased path.
C4_PrunesOnlyBelowThreshold ==
    (op \in {"remove_spurious_roads", "process_sketch"} /\ Returned) =>
        \A i \in 1..Len(trace) :
            LET t == trace[i]
                near == \E k \in 1..Len(intersections) :
                            SquaredDistance(t.endpoint, intersections[k])
                                < min_road_length * min_road_length
            IN  /\ t.erased # {} => near
                /\ (intersections # <<>> /\ ~near) =>
                       /\ ~t.called
                       /\ t.erased = {}
                       /\ (t.endpoint \in skeleton.fg /\ t.endpoint \notin AllErased)
                              => t.endpoint \in cleaned.fg

\* get_path was not called for an endpoint exactly min_road_length away from
\* its nearest intersection, while a path was erased for another.
C4_Witness ==
    /\ Removed
    /\ \E i, j \in 1..Len(trace) :
           /\ trace[i].erased # {}
           /\ ~trace[j].called
           /\ trace[j].closest.int # <<>>
           /\ trace[j].closest.d2 = min_road_length * min_road_length
           /\ trace[j].endpoint \in cleaned.fg

\* C5: if the endpoint list or the intersection list is empty,
\* remove_spurious_roads returns a raster equal pixel for pixel to the
\* skeleton.
C5_NothingToPrune ==
    (/\ op \in {"remove_spurious_roads", "process_sketch"}
     /\ Returned
     /\ (endpoints = <<>> \/ intersections = <<>>)) =>
        cleaned = skeleton

\* Two disjoint segments: 4 endpoints, no intersection, nothing erased.
C5_Witness ==
    /\ Removed
    /\ skeleton = SegmentsRaster
    /\ Len(endpoints) = 4
    /\ intersections = <<>>
    /\ cleaned = skeleton

C7_DisjointNoDuplicates ==
    (op \in {"find_network_points", "process_sketch"} /\ Returned) =>
        /\ Range(endpoints) \cap Range(intersections) = {}
        /\ Cardinality(Range(endpoints)) = Len(endpoints)
        /\ Cardinality(Range(intersections)) = Len(intersections)

\* find_network_points returned endpoints and intersections.
C7_Witness ==
    /\ Found
    /\ endpoints # <<>>
    /\ Len(intersections) >= 2

\* C8: every coordinate (x, y) find_network_points returns satisfies
\* 0 <= x < width and 0 <= y < height of the raster passed in.
C8_InsideTheRaster ==
    Found =>
        \A c \in Range(endpoints) \cup Range(intersections) :
            /\ 0 <= c[1] /\ c[1] < skeleton.w
            /\ 0 <= c[2] /\ c[2] < skeleton.h

\* A coordinate of the last column and one of the last row were returned, on
\* a raster that is not square.
C8_Witness ==
    /\ Found
    /\ skeleton.w # skeleton.h
    /\ \E c \in Range(endpoints) \cup Range(intersections) : c[1] = skeleton.w - 1
    /\ \E c \in Range(endpoints) \cup Range(intersections) : c[2] = skeleton.h - 1

\* The cells of the first or last row or column.
OnBorder(raster, c) ==
    \/ c[1] \in {0, raster.w - 1}
    \/ c[2] \in {0, raster.h - 1}

\* C9: for a foreground pixel of the first or last row or column,
\* find_network_points counts only the neighbours inside the raster: the 3x3
\* block it reads lies inside the padded array, and the pixel is classified
\* by the count of the cells around it on the raster itself, so a pixel of
\* the opposite border is never counted.
C9_BorderPixels ==
    Found =>
        \A c \in {d \in skeleton.fg : OnBorder(skeleton, d)} :
            /\ \A y \in c[2]..(c[2] + 2), x \in c[1]..(c[1] + 2) :
                   InPadded(skeleton, y, x)
            /\ (c[1] < width /\ c[2] < height) =>
                   /\ c \in Range(endpoints) <=> Around(skeleton, c) = 1
                   /\ c \in Range(intersections) <=> Around(skeleton, c) > 2

\* A pixel of the first column was classified as an endpoint while the pixel
\* of the last column of its row is foreground.
C9_Witness ==
    /\ Found
    /\ skeleton.w >= 3
    /\ \E c \in Range(endpoints) :
           /\ c[1] = 0
           /\ <<skeleton.w - 1, c[2]>> \in skeleton.fg

\* C10: the raster remove_spurious_roads returns has the height and the width
\* of the skeleton, for every skeleton and every endpoint and intersection
\* list.
C10_SameDimensions ==
    (op \in {"remove_spurious_roads", "process_sketch"} /\ Returned) =>
        /\ cleaned.h = skeleton.h
        /\ cleaned.w = skeleton.w

\* A raster that is not square was pruned by a cleaner whose height and width
\* are not the raster's.
C10_Witness ==
    /\ Removed
    /\ skeleton.h # skeleton.w
    /\ height # NoDim
    /\ <<height, width>> # <<skeleton.h, skeleton.w>>
    /\ AllErased # {}
    /\ cleaned.h = skeleton.h
    /\ cleaned.w = skeleton.w

\* C11: remove_spurious_roads and get_path leave the skeleton array passed to
\* them as it was, pixel for pixel; the raster returned is another array
\* object, holding the cleaned raster, and writing to it afterwards leaves
\* the skeleton as it was.
C11_SkeletonNotMutated ==
    /\ op \in {"remove_spurious_roads", "get_path", "modify"} => arrays.skeleton = skeleton
    /\ op \in {"remove_spurious_roads", "modify"} => returned # "skeleton"
    /\ op = "remove_spurious_roads" => arrays[returned] = cleaned

\* The caller cleared the raster returned for a skeleton that is not blank,
\* and the skeleton is as it was.
C11_Witness ==
    /\ op = "modify"
    /\ skeleton.fg # {}
    /\ arrays[returned].fg = {}
    /\ arrays.skeleton = skeleton

\* The cells of a path whose row is in [0, self.height) and whose column is
\* in [0, self.width).
InRange(path) ==
    {c \in {<<path[k][2], path[k][1]>> : k \in 1..Len(path)} :
        c[1] \in 0..(width - 1) /\ c[2] \in 0..(height - 1)}

OutOfRange(path) == {<<path[k][2], path[k][1]>> : k \in 1..Len(path)} \ InRange(path)

\* remove_spurious_roads was called, by the caller or by process_sketch on a
\* 2D sketch that has pixels.
Pruning ==
    \/ op = "remove_spurious_roads"
    \/ /\ op = "process_sketch"
       /\ Len(sketch.shape) = 2
       /\ sketch.shape[1] > 0
       /\ sketch.shape[2] > 0

\* C12: for a coordinate of the path whose row is outside [0, height) or whose
\* column is outside [0, width), remove_spurious_roads writes nothing; it
\* raises no error, and it erases the in-range coordinates of the same path.
\* The height and the width are those the code tests against, self.height
\* and self.width.
C12_OutOfRangeSkipped ==
    Pruning =>
        /\ Returned
        /\ \A i \in 1..Len(trace) :
               /\ trace[i].erased = InRange(trace[i].path)
               /\ \A c \in OutOfRange(trace[i].path) :
                      (c \in skeleton.fg /\ c \notin AllErased) => c \in cleaned.fg

\* A path had a foreground coordinate out of range, which was kept, and one in
\* range, which was erased.
C12_Witness ==
    /\ Removed
    /\ \E i \in 1..Len(trace) :
           /\ OutOfRange(trace[i].path) \cap cleaned.fg # {}
           /\ InRange(trace[i].path) \cap skeleton.fg # {}
           /\ InRange(trace[i].path) \cap cleaned.fg = {}

\* C13: when get_path fails for an endpoint (it returns no path),
\* remove_spurious_roads raises nothing, erases nothing for that endpoint and
\* goes on: every endpoint of the list is dealt with in turn, get_path being
\* called for exactly those closer than min_road_length to an intersection;
\* so process_sketch on a 2D sketch with pixels does not fail on account of
\* one endpoint.
C13_FailureAbsorbed ==
    Pruning =>
        /\ Returned
        /\ Len(trace) = Len(endpoints)
        /\ \A i \in 1..Len(trace) :
               /\ trace[i].endpoint = endpoints[i]
               /\ trace[i].called <=>
                      IsSpurious(Closest(endpoints[i], intersections), min_road_length)
               /\ trace[i].path = <<>> => trace[i].erased = {}

\* get_path failed for one endpoint and the path of a later one was erased.
C13_Witness ==
    /\ Removed
    /\ \E i, j \in 1..Len(trace) :
           /\ i < j
           /\ trace[i].called
           /\ trace[i].path = <<>>
           /\ trace[i].endpoint \notin Cells(skeleton.h, skeleton.w)
           /\ trace[j].erased # {}

\* The endpoints of a run of remove_spurious_roads for which a path was
\* erased, by their place in the list.
Pruned(t) == {i \in 1..Len(t) : t[i].erased # {}}

\* The outcomes of the loop of remove_spurious_roads over the recorded
\* skeleton and lists with min_road_length b, from the i-th endpoint on, where
\* get_path finds again the path recorded for every endpoint the recorded run
\* called it for.
RECURSIVE RaisedFrom(_, _, _, _)
RaisedFrom(b, i, raster, done) ==
    IF i > Len(endpoints)
    THEN {[cleaned |-> raster, trace |-> done]}
    ELSE LET endpoint == endpoints[i]
             closest == Closest(endpoint, intersections)
         IN  IF ~IsSpurious(closest, b)
             THEN RaisedFrom(b, i + 1, raster,
                             Append(done, [endpoint |-> endpoint, closest |-> closest,
                                           called |-> FALSE, path |-> <<>>,
                                           erased |-> {}]))
             ELSE UNION {
                    LET gone == Erased(height, width, raster, path)
                    IN  RaisedFrom(b, i + 1, [raster EXCEPT !.fg = @ \ gone],
                                   Append(done, [endpoint |-> endpoint, closest |-> closest,
                                                 called |-> TRUE, path |-> path,
                                                 erased |-> gone]))
                    : path \in IF trace[i].called
                               THEN {trace[i].path}
                               ELSE get_path(skeleton, endpoint, closest.int)}

\* C14: for a fixed skeleton and fixed endpoint and intersection lists, with
\* min_road_length raised from a to b >= a the endpoints pruned with b are at
\* least as many as with a, and every pixel erased with a is erased with b.
\* The runs with b are those that find the same path wherever both runs call
\* get_path for the same endpoint.
C14_ThresholdMonotone ==
    Removed =>
        \A b \in {m \in MinRoadLengths : m > min_road_length} :
            \A r \in RaisedFrom(b, 1, skeleton, <<>>) :
                /\ \A i \in 1..Len(trace) : trace[i].called => r.trace[i].called
                /\ Cardinality(Pruned(r.trace)) >= Cardinality(Pruned(trace))
                /\ skeleton.fg \ cleaned.fg \subseteq skeleton.fg \ r.cleaned.fg

\* With min_road_length = 2 a path was erased for one endpoint and another,
\* less than 4 away from an intersection, was skipped.
C14_Witness ==
    /\ Removed
    /\ min_road_length = 2
    /\ skeleton.fg \ cleaned.fg # {}
    /\ \E i \in 1..Len(trace) :
           /\ ~trace[i].called
           /\ trace[i].endpoint \in cleaned.fg
           /\ IsSpurious(trace[i].closest, 4)

\* The orders a list of n entries may be put in.
Orders(n) == {p \in [1..n -> 1..n] : \A i, j \in 1..n : p[i] = p[j] => i = j}

\* The raster the loop of remove_spurious_roads leaves when it takes the
\* endpoints in the order p, each with the path found for it.
RECURSIVE ReorderedFrom(_, _, _)
ReorderedFrom(p, i, raster) ==
    IF i > Len(p)
    THEN raster
    ELSE ReorderedFrom(p, i + 1,
             [raster EXCEPT !.fg = @ \ Erased(height, width, raster, trace[p[i]].path)])

\* C15: the path of every endpoint is a path on the cost field of the
\* skeleton as passed in, with its nearest intersection found as if it were
\* the only endpoint, not a path on the raster as cleaned so far; and the
\* raster returned is the one the loop leaves when it takes the endpoints,
\* with these paths, in any other order, also when paths overlap.
C15_OrderIndependent ==
    (op \in {"remove_spurious_roads", "process_sketch"} /\ Returned) =>
        /\ \A i \in 1..Len(trace) :
               /\ trace[i].closest = Closest(endpoints[i], intersections)
               /\ trace[i].called =>
                      trace[i].path \in get_path(skeleton, endpoints[i], trace[i].closest.int)
        /\ \A p \in Orders(Len(trace)) : ReorderedFrom(p, 1, skeleton) = cleaned

\* The paths erased for two endpoints have a foreground pixel in common, and
\* a third endpoint was processed between or around them.
C15_Witness ==
    /\ Removed
    /\ Len(endpoints) >= 3
    /\ \E i, j \in 1..Len(trace) :
           /\ i # j
           /\ trace[i].erased \cap trace[j].erased \cap skeleton.fg # {}
           /\ trace[i].erased # trace[j].erased

\* C16: two runs of find_network_points followed by remove_spurious_roads on
\* equal skeletons with equal min_road_length return equal endpoints, equal
\* intersections and equal cleaned rasters.  The run of the state is set
\* against the run process_sketch makes on the same skeleton, on a cleaner
\* whose height and width are the skeleton's.
C16_SameResultForEqualInput ==
    /\ op = "find_network_points" =>
           /\ raised = Classified(skeleton).raised
           /\ Range(endpoints) = Range(Classified(skeleton).endpoints)
           /\ Range(intersections) = Range(Classified(skeleton).intersections)
    /\ (/\ Removed
        /\ endpoints = Classified(skeleton).endpoints
        /\ intersections = Classified(skeleton).intersections) =>
           \E r \in remove_spurious_roads(skeleton.h, skeleton.w, min_road_length, skeleton,
                                          endpoints, intersections) :
               r.cleaned = cleaned

\* What a process_sketch call returns when no other call runs on the cleaner
\* meanwhile: the rasters remove_spurious_roads may return for the skeleton
\* and its classification, with the height and width of the sketch.
Alone(call) ==
    {r.cleaned : r \in remove_spurious_roads(call.sketch.h, call.sketch.w, min_road_length,
                                             call.skeleton,
                                             Classified(call.skeleton).endpoints,
                                             Classified(call.skeleton).intersections)}

\* C17: under every interleaving of two process_sketch calls on rasters of
\* different dimensions on one RoadNetworkCleaner, each call returns the raster
\* it returns when run alone.
C17_CallsDoNotInterfere ==
    \A t \in Threads :
        (/\ calls[t].pc = "done"
         /\ \E u \in Threads :
                /\ calls[u].pc # "idle"
                /\ <<calls[u].sketch.h, calls[u].sketch.w>>
                       # <<calls[t].sketch.h, calls[t].sketch.w>>) =>
            /\ calls[t].raised = "none"
            /\ calls[t].cleaned \in Alone(calls[t])

\* The height and width a cleaner may have when find_network_points is
\* called on it: none, or those of a sketch it processed.
Dimensions == {<<NoDim, NoDim>>} \cup {<<sk.h, sk.w>> : sk \in Sketches}

\* C18: the result of find_network_points depends on the raster alone: it is
\* what the call gives on a cleaner with any other height and width, whether
\* or not process_sketch ever ran on it; and the call changes neither the
\* raster nor the cleaner.
C18_PureFunctionOfRaster ==
    /\ [](op = "find_network_points" =>
             /\ arrays.skeleton = skeleton
             /\ \A d \in Dimensions :
                    find_network_points(d[1], d[2], skeleton)
                        = [raised |-> raised, endpoints |-> endpoints,
                           intersections |-> intersections])
    /\ [][op' = "find_network_points" => UNCHANGED <<height, width, min_road_length>>]_vars

\* C19: visualize_cleanup(original, cleaned), given an H x W original and the
\* H x W raster process_sketch returned for it, returns a raster of height H
\* and width 2 x W, raises nothing and leaves the cleaned raster as it was.
C19_ComparisonReturned ==
    op = "visualize_cleanup" =>
        /\ Returned
        /\ comparison = [h |-> sketch.h, w |-> 2 * sketch.w]
        /\ arrays[returned] = cleaned

C21_ForegroundAbove127 ==
    (/\ op = "process_sketch"
     /\ Len(sketch.shape) = 2
     /\ sketch.h > 0
     /\ sketch.w > 0) =>
        /\ binary.h = sketch.h
        /\ binary.w = sketch.w
        /\ \A c \in Cells(sketch.h, sketch.w) : c \in binary.fg <=> sketch.px[c] > 127
        /\ \A c \in Cells(sketch.h, sketch.w) : sketch.px[c] = 127 => c \notin skeleton.fg

\* process_sketch returned for a sketch with pixels of value 127 and pixels
\* of value 128: the former are background, the latter foreground and kept
\* in the skeleton.
C21_Witness ==
    /\ op = "process_sketch"
    /\ Returned
    /\ \E c \in Cells(sketch.h, sketch.w) : sketch.px[c] = 127 /\ c \notin binary.fg
    /\ \E c \in Cells(sketch.h, sketch.w) :
           sketch.px[c] = 128 /\ c \in binary.fg /\ c \in skeleton.fg

\* The rasters process_sketch may return for the sketch of the last call on a
\* cleaner with the radius r, where skeletonize gives the skeleton it gave.
CleanedWith(r) ==
    {o.cleaned : o \in {q \in process_sketch(min_road_length, r, sketch) :
                            q.skeleton = skeleton}}

\* C22: the value of intersection_radius has no effect on the result: what
\* process_sketch returned for a sketch is what it returns for that sketch
\* with the same min_road_length and any other intersection_radius.
C22_RadiusHasNoEffect ==
    (op = "process_sketch" /\ Returned) =>
        \A r \in IntersectionRadii :
            /\ cleaned \in CleanedWith(r)
            /\ CleanedWith(r) = CleanedWith(intersection_radius)

\* process_sketch pruned an endpoint on a cleaner whose intersection_radius
\* is below the endpoint's distance from its intersection.
C22_Witness ==
    /\ op = "process_sketch"
    /\ Returned
    /\ intersection_radius = 1
    /\ \E i \in 1..Len(trace) :
           /\ trace[i].erased # {}
           /\ trace[i].closest.d2 >= intersection_radius * intersection_radius

\* The calls that returned from the loop of remove_spurious_roads.
Looped == op \in {"remove_spurious_roads", "process_sketch"} /\ Returned

\* c comes before d in the scan of find_network_points: row by row, and in a
\* row column by column.
ScannedBefore(c, d) == c[2] < d[2] \/ (c[2] = d[2] /\ c[1] < d[1])

\* The list is in the order find_network_points makes its lists in.
InScanOrder(points) ==
    \A i, j \in 1..Len(points) : i < j => ScannedBefore(points[i], points[j])

\* C23: with the intersections as find_network_points lists them, the
\* intersection a path is computed to for an endpoint is one nearest to it in
\* a straight line, and of several nearest ones the first in the row-major
\* scan (smallest y, then smallest x).
C23_NearestFirstScanned ==
    (Looped /\ InScanOrder(intersections)) =>
        \A i \in 1..Len(trace) :
            trace[i].called =>
                /\ trace[i].closest.int \in Range(intersections)
                /\ trace[i].closest.d2 =
                       SquaredDistance(endpoints[i], trace[i].closest.int)
                /\ \A c \in Range(intersections) :
                       LET d2 == SquaredDistance(endpoints[i], c)
                       IN  /\ trace[i].closest.d2 <= d2
                           /\ (d2 = trace[i].closest.d2 /\ c # trace[i].closest.int) =>
                                  ScannedBefore(trace[i].closest.int, c)

\* A path was computed for the endpoint (2,2) of the tie raster to (1,0), the
\* first scanned of its two nearest intersections, though (0,1) is the
\* nearer one along the skeleton.
C23_Witness ==
    /\ Looped
    /\ skeleton = TieRaster
    /\ \E i \in 1..Len(trace) :
           /\ trace[i].called
           /\ trace[i].endpoint = <<2, 2>>
           /\ trace[i].closest.int = <<1, 0>>
           /\ <<0, 1>> \in Range(intersections)
           /\ SquaredDistance(<<2, 2>>, <<0, 1>>) = trace[i].closest.d2

\* C24: get_path is called for an endpoint only after the distance check has
\* passed: never when there is no intersection, never when the nearest
\* intersection is min_road_length away or more; and the loop makes one step
\* for each entry of the endpoint list, with at most one call of get_path.
C24_PathOnlyAfterCheck ==
    Looped =>
        /\ Len(trace) = Len(endpoints)
        /\ \A i \in 1..Len(trace) :
               /\ trace[i].endpoint = endpoints[i]
               /\ trace[i].called =>
                      /\ intersections # <<>>
                      /\ \E c \in Range(intersections) :
                             SquaredDistance(endpoints[i], c)
                                 < min_road_length * min_road_length
               /\ ~trace[i].called => (trace[i].path = <<>> /\ trace[i].erased = {})

\* In one run get_path was called for an endpoint and not for another, whose
\* nearest intersection is more than min_road_length away.
C24_Witness ==
    /\ Looped
    /\ \E i, j \in 1..Len(trace) :
           /\ trace[i].called
           /\ trace[i].path # <<>>
           /\ ~trace[j].called
           /\ trace[j].closest.int # <<>>
           /\ trace[j].closest.d2 > min_road_length * min_road_length

\* The cells of the raster an 8-connected route of skeleton cells joins to
\* one of S.
RECURSIVE ReachedFrom(_, _)
ReachedFrom(raster, S) ==
    LET T == S \cup {c \in raster.fg :
                        \E d \in S : d[1] - c[1] \in -1..1 /\ d[2] - c[2] \in -1..1}
    IN  IF T = S THEN S ELSE ReachedFrom(raster, T)

\* An 8-connected route made of skeleton cells only joins a and b.
Joined(raster, a, b) == a \in raster.fg /\ b \in ReachedFrom(raster, {a})

\* What C25 asks of a path get_path found from start to end, both given as
\* (x, y); the path holds (y, x) pairs.
HugsSkeleton(raster, start, end, path) ==
    /\ path[1] = <<start[2], start[1]>>
    /\ path[Len(path)] = <<end[2], end[1]>>
    /\ \A k \in 1..(Len(path) - 1) :
           /\ path[k] # path[k + 1]
           /\ path[k + 1][1] - path[k][1] \in -1..1
           /\ path[k + 1][2] - path[k][2] \in -1..1
    /\ (\E k \in 1..Len(path) : <<path[k][2], path[k][1]>> \notin raster.fg) =>
           ~Joined(raster, start, end)

\* C25: the path get_path returns between an endpoint and its chosen
\* intersection, when it finds one, is 8-connected, starts at the endpoint,
\* ends at the intersection, and holds a background pixel only if no
\* 8-connected route of skeleton pixels joins the two.  get_path returns []
\* only for a point outside the raster.
C25_PathHugsSkeleton ==
    (Looped \/ op = "get_path") =>
        \A i \in 1..Len(trace) :
            trace[i].called =>
                IF trace[i].path = <<>>
                THEN \/ trace[i].endpoint \notin Cells(skeleton.h, skeleton.w)
                     \/ trace[i].closest.int \notin Cells(skeleton.h, skeleton.w)
                ELSE HugsSkeleton(skeleton, trace[i].endpoint, trace[i].closest.int,
                                  trace[i].path)

\* The loop found for an endpoint a path of skeleton pixels that is longer
\* than a route across the background would be.
C25_Witness ==
    /\ Looped
    /\ \E i \in 1..Len(trace) :
           /\ trace[i].called
           /\ Len(trace[i].path) >= 4
           /\ \A k \in 1..Len(trace[i].path) :
                  <<trace[i].path[k][2], trace[i].path[k][1]>> \in skeleton.fg
           /\ trace[i].closest.d2 < 9

\* C26: the two cleaners agree: process_sketch of road_network_cleaner.py
\* completes, classifying and pruning, and returns a raster process_sketch of
\* exec.py returns for the same sketch and skeleton.  No path leaves the
\* raster of a sketch: the points are those find_network_points reports.
C26_CleanersAgree ==
    (op = "road_network_cleaner.process_sketch") =>
        /\ Returned
        /\ returned # "none"
        /\ cleaned \in
               {o.cleaned : o \in {q \in process_sketch(min_road_length,
                                                        intersection_radius, sketch) :
                                       q.skeleton = skeleton /\ q.raised = "none"}}

\* C27: pruning is a single pass over the classification made once before
\* it: process_sketch classifies the skeleton, remove_spurious_roads makes
\* one step for each endpoint of that classification, in order, each against
\* the intersections of that classification, and makes none for an endpoint
\* that exists only in the cleaned raster; the loop ends after as many steps
\* as there were endpoints.
C27_SinglePass ==
    (op = "process_sketch" /\ Returned) =>
        /\ endpoints = Classified(skeleton).endpoints
        /\ intersections = Classified(skeleton).intersections
        /\ Len(trace) = Len(endpoints)
        /\ \A i \in 1..Len(trace) :
               /\ trace[i].endpoint = endpoints[i]
               /\ trace[i].closest = Closest(endpoints[i], intersections)
        /\ \A c \in Range(Classified(cleaned).endpoints) \ Range(endpoints) :
               \A i \in 1..Len(trace) : trace[i].endpoint # c

\* process_sketch returned a raster with an endpoint that the skeleton did
\* not have, made by the erasure of a path, and the loop made no step for it.
C27_Witness ==
    /\ op = "process_sketch"
    /\ Returned
    /\ Len(trace) = Len(endpoints)
    /\ \E i \in 1..Len(trace) : trace[i].erased # {}
    /\ \E c \in Range(Classified(cleaned).endpoints) :
           /\ c \notin Range(endpoints)
           /\ \A i \in 1..Len(trace) : trace[i].endpoint # c

\* C28: whenever a non-empty path was found for an endpoint, the erased path
\* includes both of its ends: the endpoint pixel and the pixel of the chosen
\* nearest intersection are both background in the cleaned raster.
C28_BothEndsErased ==
    Looped =>
        \A i \in 1..Len(trace) :
            (trace[i].called /\ trace[i].path # <<>>) =>
                /\ trace[i].endpoint \notin cleaned.fg
                /\ trace[i].closest.int \notin cleaned.fg

\* The graph has a node, and no set of its nodes other than all of them and
\* none of them is closed under its edges.
Connected(graph) ==
    /\ graph.n >= 1
    /\ \A S \in SUBSET (1..graph.n) :
           (S # {} /\ S # 1..graph.n) =>
               \E u \in S, v \in (1..graph.n) \ S : {u, v} \in graph.edges

\* The nodes of the graph on a side of the polygon's bounds.
OnBounds(graph) ==
    {v \in 1..graph.n :
        \/ graph.data[v].x \in {Polygon.bounds[1], Polygon.bounds[3]}
        \/ graph.data[v].y \in {Polygon.bounds[2], Polygon.bounds[4]}}

\* C29: validate_network_connectivity(G, polygon) returns True if and only if
\* G has at least 2 border nodes and is connected; the loop over the pairs of
\* border nodes, which runs when both hold, never returns False.
C29_BorderPairsLoopIdle ==
    valid # <<>> =>
        /\ valid[1] <=> (Cardinality(OnBounds(G)) >= 2 /\ Connected(G))
        /\ (Cardinality(OnBounds(G)) >= 2 /\ Connected(G)) =>
               BorderPathsFrom(G, get_border_nodes(G, Polygon), 1)

\* The function returned True for a graph with three border nodes, after two
\* rounds of the loop.
C29_Witness ==
    /\ valid = <<TRUE>>
    /\ Len(get_border_nodes(G, Polygon)) = 3
    /\ Cardinality(G.edges) = 2

====
